---------------------------- MODULE Spec2Model ----------------------------
(***************************************************************************)
(* A model of flask_thumbnails.thumbnail.Thumbnail: the get_thumbnail      *)
(* control flow (read, decode, resolve format, fingerprint, cache check,   *)
(* transform, encode, save) over a storage backend, and the pure helpers   *)
(* it is built from.                                                       *)
(*                                                                         *)
(* Python str values are sequences of one-character strings, so that       *)
(* lower(), split(), join() and str() are computed and not assumed.        *)
(* Other Python values (None, False, 0, ...) are tagged records.           *)
(***************************************************************************)
EXTENDS Integers, Sequences, FiniteSets, TLC

\* ----------------------------------------------------------------- bounds
\* Number of get_thumbnail calls one behaviour of the service makes.
MaxCalls == 2
\* Largest image side and requested side in the transform specification.
MaxDim == 4

\* ------------------------------------------------------------ str helpers
UC == << "A","B","C","D","E","F","G","H","I","J","K","L","M",
         "N","O","P","Q","R","S","T","U","V","W","X","Y","Z" >>
LC == << "a","b","c","d","e","f","g","h","i","j","k","l","m",
         "n","o","p","q","r","s","t","u","v","w","x","y","z" >>
Digits == << "0","1","2","3","4","5","6","7","8","9" >>

LowerChar(c) ==
    IF \E i \in 1..26 : UC[i] = c
    THEN LC[CHOOSE i \in 1..26 : UC[i] = c]
    ELSE c

\* str.lower()
Lower(s) == [i \in 1..Len(s) |-> LowerChar(s[i])]

\* Index of the last occurrence of character c in s, 0 when there is none.
LastIndex(s, c) ==
    LET I == {i \in 1..Len(s) : s[i] = c}
    IN  IF I = {} THEN 0 ELSE CHOOSE i \in I : \A j \in I : j <= i

\* Index of the first occurrence of character c in s, 0 when there is none.
FirstIndex(s, c) ==
    LET I == {i \in 1..Len(s) : s[i] = c}
    IN  IF I = {} THEN 0 ELSE CHOOSE i \in I : \A j \in I : i <= j

IsDigit(c) == \E i \in 1..10 : Digits[i] = c
DigitVal(c) == (CHOOSE i \in 1..10 : Digits[i] = c) - 1

\* str(n) for a natural number n.
RECURSIVE IntToStr(_)
IntToStr(n) ==
    IF n < 10 THEN << Digits[n + 1] >>
    ELSE IntToStr(n \div 10) \o << Digits[(n % 10) + 1] >>

\* The value of a non-empty string of decimal digits.
RECURSIVE DigitsToInt(_)
DigitsToInt(s) ==
    IF Len(s) = 0 THEN 0
    ELSE 10 * DigitsToInt(SubSeq(s, 1, Len(s) - 1)) + DigitVal(s[Len(s)])

IsNumeral(s) == Len(s) > 0 /\ \A i \in 1..Len(s) : IsDigit(s[i])

\* ---------------------------------------------------------- Python values
PyNone == [t |-> "none", v |-> << >>]
PyFalse == [t |-> "bool", v |-> << "0" >>]
PyTrue == [t |-> "bool", v |-> << "1" >>]
PyInt(n) == [t |-> "int", v |-> IntToStr(n)]
PyStr(s) == [t |-> "str", v |-> s]

\* bool(x): None, False, 0 and "" are falsy.
Truthy(x) ==
    CASE x.t = "none" -> FALSE
      [] x.t = "bool" -> x.v = << "1" >>
      [] x.t = "int"  -> DigitsToInt(x.v) # 0
      [] OTHER        -> Len(x.v) > 0

\* ------------------------------------------------------------- os.path
\* os.path.isabs
IsAbs(p) == Len(p) > 0 /\ p[1] = "/"

\* os.path.join of two components (POSIX).
Join2(a, b) ==
    IF IsAbs(b) THEN b
    ELSE IF Len(a) = 0 \/ a[Len(a)] = "/" THEN a \o b
    ELSE a \o << "/" >> \o b

\* os.path.join(a, b, c)
Join3(a, b, c) == Join2(Join2(a, b), c)

RECURSIVE RStripSlash(_)
RStripSlash(s) ==
    IF Len(s) > 0 /\ s[Len(s)] = "/" THEN RStripSlash(SubSeq(s, 1, Len(s) - 1))
    ELSE s

\* os.path.split (POSIX): <<head, tail>>.
PathSplit(p) ==
    LET i    == LastIndex(p, "/")
        head == SubSeq(p, 1, i)
        tail == SubSeq(p, i + 1, Len(p))
        allslash == \A k \in 1..Len(head) : head[k] = "/"
    IN  << IF Len(head) > 0 /\ ~allslash THEN RStripSlash(head) ELSE head, tail >>


\* String literals used by the program and by the inputs.
S_fit == << "f","i","t" >>
S_thumbnail == << "t","h","u","m","b","n","a","i","l" >>
S_media == << "m","e","d","i","a" >>
S_thumbs == << "/","t" >>
S_slash == << "/" >>
S_rootpath == << "/","r" >>
S_True == << "T","r","u","e" >>
S_PNG == << "P","N","G" >>
S_JPEG == << "J","P","E","G" >>
S_WEBP == << "W","E","B","P" >>
S_Gif == << "G","i","f" >>

\* ------------------------------------------------------------------ utils
\* flask_thumbnails/utils.py is not among the source files; parse_size,
\* aspect_to_string and generate_filename follow sections 4.1 and 4.2 of the
\* specification.

\* parse_size: an int N gives (N, N), "WxH" gives (W, H); both sides must be
\* positive integers, anything else is an InvalidSizeError.
ParseSize(size) ==
    LET bad == [ok |-> FALSE, w |-> 0, h |-> 0]
        i   == FirstIndex(size.v, "x")
        ws  == SubSeq(size.v, 1, i - 1)
        hs  == SubSeq(size.v, i + 1, Len(size.v))
    IN  CASE size.t = "int" ->
               IF IsNumeral(size.v) /\ DigitsToInt(size.v) > 0
               THEN [ok |-> TRUE, w |-> DigitsToInt(size.v), h |-> DigitsToInt(size.v)]
               ELSE bad
          [] size.t = "str" ->
               IF i > 0 /\ IsNumeral(ws) /\ IsNumeral(hs)
                  /\ DigitsToInt(ws) > 0 /\ DigitsToInt(hs) > 0
               THEN [ok |-> TRUE, w |-> DigitsToInt(ws), h |-> DigitsToInt(hs)]
               ELSE bad
          [] OTHER -> bad

\* aspect_to_string: the canonical "WxH" text of the parsed size.
AspectToString(size) ==
    LET p == ParseSize(size)
    IN  IntToStr(p.w) \o << "x" >> \o IntToStr(p.h)

\* The stem of a file name: the name without its last extension.
Stem(filename) ==
    LET i == LastIndex(filename, ".")
    IN  IF i > 1 THEN SubSeq(filename, 1, i - 1) ELSE filename

\* generate_filename: stem, canonical size, crop mode, the background flag
\* (present only when a background is requested) and quality joined with "_",
\* then "." and the resolved extension.
GenerateFilename(original_filename, size_str, crop, background, quality, extension) ==
    Stem(original_filename)
        \o << "_" >> \o size_str
        \o << "_" >> \o crop
        \o (IF Truthy(background) THEN << "_" >> \o S_True ELSE << >>)
        \o << "_" >> \o IntToStr(quality)
        \o << "." >> \o extension

\* ----------------------------------------------------------------- images
\* A decoded image: its pixel mode, its size, and, for an image made by
\* Thumbnail.background, where the original was pasted on the canvas.
Img(mode, w, h) == [mode |-> mode, size |-> << w, h >>, canvas |-> FALSE, at |-> << 0, 0 >>]

Max2(a, b) == IF a >= b THEN a ELSE b
Abs(a) == IF a >= 0 THEN a ELSE -a
CeilDiv(a, b) == (a + b - 1) \div b

\* ImageOps.fit(image, size, method): a new image of exactly the requested
\* size, scaled and cropped from the source.
OpsFit(image, size) == [image EXCEPT !.size = size]

\* Image.thumbnail(size) as Pillow computed the new size up to release 6:
\* shrink x to fit, then y to fit, truncating, never below 1.
ThumbnailSizeTrunc(src, size) ==
    LET x0 == src[1]
        y0 == src[2]
        y1 == IF x0 > size[1] THEN Max2((y0 * size[1]) \div x0, 1) ELSE y0
        x1 == IF x0 > size[1] THEN size[1] ELSE x0
        x2 == IF y1 > size[2] THEN Max2((x1 * size[2]) \div y1, 1) ELSE x1
        y2 == IF y1 > size[2] THEN size[2] ELSE y1
    IN  << x2, y2 >>

\* Image.thumbnail(size) as Pillow computes the new size from release 7:
\* nothing to do when the source fits, else the side that overflows is
\* replaced by the floor or the ceiling that keeps the aspect best.
ThumbnailSizeAspect(src, size) ==
    LET w == src[1]
        h == src[2]
        x == size[1]
        y == size[2]
        \* x / y >= aspect: new x from y * aspect, key |aspect - n / y|
        xf == (y * w) \div h
        xc == CeilDiv(y * w, h)
        xk(n) == Abs(w * y - n * h)
        nx == Max2(IF xk(xf) <= xk(xc) THEN xf ELSE xc, 1)
        \* else: new y from x / aspect, key 0 if n = 0 else |aspect - x / n|
        yf == (x * h) \div w
        yc == CeilDiv(x * h, w)
        yk(n) == Abs(w * n - x * h)
        ny == Max2(IF yf = 0 \/ yk(yf) * yc <= yk(yc) * yf THEN yf ELSE yc, 1)
    IN  IF x >= w /\ y >= h THEN << w, h >>
        ELSE IF x * h >= w * y THEN << nx, y >>
        ELSE << x, ny >>

\* A resize to the requested size whatever the source: it stretches and
\* upscales.
ThumbnailSizesStretch(src, size) == { size }

\* image.copy(); image.thumbnail(size, resample): the sizes the installed
\* Pillow may produce.
ThumbnailSizes(src, size) == { ThumbnailSizeTrunc(src, size), ThumbnailSizeAspect(src, size) }

\* Python 3 true division by two: a float, kept exactly as a count of halves.
TrueDiv2(n) == [t |-> "float", twice |-> n]
PyNumInt(n) == [t |-> "int", twice |-> 2 * n]

\* The box Thumbnail.background passes to paste:
\* tuple(map(lambda x: (x[0] - x[1]) / 2, zip(size, original_image.size))).
BackgroundBox(original_size) ==
    LET side == Max2(original_size[1], original_size[2])
    IN  << TrueDiv2(side - original_size[1]), TrueDiv2(side - original_size[2]) >>

\* Image.paste(im, box): the box is a tuple of integer pixel coordinates; a
\* float coordinate is refused with a TypeError.
PasteAccepts(box) == \A i \in 1..2 : box[i].t = "int"

\* Thumbnail.background: a new "L" canvas of side max(size), the original
\* pasted at BackgroundBox.
Background(original_image) ==
    LET side == Max2(original_image.size[1], original_image.size[2])
        box  == BackgroundBox(original_image.size)
    IN  IF PasteAccepts(box)
        THEN [ok |-> TRUE, err |-> "",
              image |-> [mode |-> "L", size |-> << side, side >>, canvas |-> TRUE,
                         at |-> << box[1].twice \div 2, box[2].twice \div 2 >>],
              box |-> box]
        ELSE [ok |-> FALSE, err |-> "TypeError", image |-> original_image, box |-> box]

\* Image.convert(mode)
Convert(image, mode) == [image EXCEPT !.mode = mode]

\* A colormode that converts whatever the source mode is.
ColormodeAlwaysConvert(image, colormode) ==
    Convert(image, IF colormode = "GRAY" THEN "L" ELSE colormode)

\* Thumbnail.colormode
Colormode(image, colormode) ==
    IF colormode \in {"RGB", "RGBA"}
    THEN IF image.mode = "RGBA" THEN image
         ELSE IF image.mode = "LA" THEN Convert(image, "RGBA")
         ELSE Convert(image, colormode)
    ELSE IF colormode = "GRAY" THEN Convert(image, "L")
    ELSE Convert(image, colormode)

\* Whether _create_thumbnail takes the padding branch for this option value.
WantsBackground(background) == background # PyNone

NoBox == << PyNumInt(0), PyNumInt(0) >>

\* Thumbnail._create_thumbnail: every outcome it can have. An outcome is the
\* returned image, or the exception raised on the way; resized and box record
\* the intermediate image and the paste box.
CreateThumbnail(image, size, crop, background) ==
    LET resized == IF crop = S_fit
                   THEN { OpsFit(image, size) }
                   ELSE { [image EXCEPT !.size = s] : s \in ThumbnailSizes(image.size, size) }
    IN  { IF WantsBackground(background)
          THEN LET b == Background(r)
               IN  [ok |-> b.ok, err |-> b.err, resized |-> r, padded |-> TRUE,
                    box |-> b.box,
                    image |-> IF b.ok THEN Colormode(b.image, "RGB") ELSE r]
          ELSE [ok |-> TRUE, err |-> "", resized |-> r, padded |-> FALSE,
                box |-> NoBox, image |-> Colormode(r, "RGB")]
        : r \in resized }


\* ----------------------------------------------------------------- inputs
\* An option the caller did not pass.
Absent == [t |-> "absent", v |-> << >>]

\* options.get(key, default)
OptGet(options, key, default) == IF options[key] = Absent THEN default ELSE options[key]

S_a_png == << "p","/","a",".","p","n","g" >>
S_a_jpg == << "p","/","a",".","j","p","g" >>
S_b_png == << "p","/","b",".","p","n","g" >>
S_c_png == << "p","/","c",".","p","n","g" >>
S_d_png == << "p","/","d",".","p","n","g" >>

\* The files the storage holds before the first call, by original name:
\* two decodable images that share a stem, one whose header opens but whose
\* pixel data is truncated, one that is no image at all.  p/d.png is absent.
OriginalFiles ==
    { << S_a_png, [kind |-> "image", format |-> S_PNG, quality |-> 0, image |-> Img("RGBA", 4, 3)] >>,
      << S_a_jpg, [kind |-> "image", format |-> S_JPEG, quality |-> 0, image |-> Img("RGB", 3, 4)] >>,
      << S_b_png, [kind |-> "truncated", format |-> S_PNG, quality |-> 0, image |-> Img("RGB", 4, 3)] >>,
      << S_c_png, [kind |-> "garbage", format |-> << >>, quality |-> 0, image |-> Img("", 0, 0)] >> }

\* Bytes that are no thumbnail of anything.
Junk == [kind |-> "garbage", format |-> << >>, quality |-> 0, image |-> Img("", 0, 0)]

OriginalNames == { S_a_png, S_a_jpg, S_b_png, S_c_png, S_d_png }
SizeValues == { PyInt(2), PyStr(<< "2","x","2" >>), PyStr(<< "3","x","2" >>), PyStr(<< "2","y" >>) }
CropValues == { Absent, PyStr(S_thumbnail) }
BackgroundValues == { Absent, PyFalse, PyTrue }
QualityValues == { Absent, PyInt(85) }
FormatValues == { Absent, PyStr(<< >>), PyStr(S_WEBP) }

Request(o, s, c, b, q, f) ==
    [original |-> o, size |-> s, crop |-> c, background |-> b, quality |-> q, format |-> f]

\* The plain request: get_thumbnail("p/a.png", 2).
BaseRequest == Request(S_a_png, PyInt(2), Absent, Absent, Absent, Absent)

\* The plain request with one argument replaced by each value of vals.
Vary(k, vals) == { [BaseRequest EXCEPT ![k] = v] : v \in vals }

\* The calls a behaviour may make: the plain request, every request that
\* differs from it in one argument, and three that differ in two (the other
\* original of the same stem with a format given, contain mode with a
\* background, contain mode with a size that is not square).
Requests ==
    Vary("original", OriginalNames) \cup Vary("size", SizeValues)
        \cup Vary("crop", CropValues) \cup Vary("background", BackgroundValues)
        \cup Vary("quality", QualityValues) \cup Vary("format", FormatValues)
        \cup { Request(S_a_jpg, PyInt(2), Absent, Absent, Absent, PyStr(S_WEBP)),
               Request(S_a_png, PyInt(2), PyStr(S_thumbnail), PyTrue, Absent, Absent),
               Request(S_a_png, PyStr(<< "3","x","2" >>), PyStr(S_thumbnail), Absent, Absent, Absent) }

\* ---------------------------------------------------------- configuration
\* app.config after init_app: the defaults of __init__, or host-set values
\* for the thumbnail root and the default format.
ThumbRoots == { S_media, S_thumbs }
DefaultFormats == { PyNone, PyStr(<< >>), PyStr(S_Gif) }

Configs ==
    { [THUMBNAIL_MEDIA_ROOT |-> S_media,
       THUMBNAIL_MEDIA_THUMBNAIL_ROOT |-> t,
       THUMBNAIL_MEDIA_URL |-> S_slash,
       THUMBNAIL_MEDIA_THUMBNAIL_URL |-> S_slash,
       THUMBNAIL_DEFAULT_FORMAT |-> d] : t \in ThumbRoots, d \in DefaultFormats }

\* Thumbnail.root_directory
RootDirectory(cfg) ==
    LET path == cfg.THUMBNAIL_MEDIA_ROOT
    IN  IF IsAbs(path) THEN path ELSE Join2(S_rootpath, path)

\* Thumbnail.thumbnail_directory
ThumbnailDirectory(cfg) ==
    LET path == cfg.THUMBNAIL_MEDIA_THUMBNAIL_ROOT
    IN  IF IsAbs(path) THEN path ELSE Join2(S_rootpath, path)

\* Thumbnail.thumbnail_url
ThumbnailUrl(cfg) == cfg.THUMBNAIL_MEDIA_THUMBNAIL_URL

\* A format resolution that asks the configuration before the call.
GetFormatDefaultFirst(cfg, image_format, options) ==
    IF Truthy(cfg.THUMBNAIL_DEFAULT_FORMAT)
    THEN Lower(cfg.THUMBNAIL_DEFAULT_FORMAT.v)
    ELSE IF Truthy(OptGet(options, "format", PyNone))
    THEN Lower(OptGet(options, "format", PyNone).v)
    ELSE image_format

\* Thumbnail.get_format
GetFormat(cfg, image_format, options) ==
    IF Truthy(OptGet(options, "format", PyNone))
    THEN Lower(OptGet(options, "format", PyNone).v)
    ELSE IF Truthy(cfg.THUMBNAIL_DEFAULT_FORMAT)
    THEN Lower(cfg.THUMBNAIL_DEFAULT_FORMAT.v)
    ELSE image_format

\* ---------------------------------------------------------------- storage
\* The storage backend is not among the source files; read, exists and save
\* follow the three-method contract of section 6 of the specification.  The
\* storage is a function from the paths that exist to their bytes.
StorageExists(st, path) == path \in DOMAIN st
StorageRead(st, path) == st[path]
StorageSave(st, path, data) == [q \in DOMAIN st \cup {path} |-> IF q = path THEN data ELSE st[q]]

\* get_thumbnail, lines 91-99: the options and the paths of the original.
OriginalFilepath(cfg, original) ==
    LET sp == PathSplit(original)
    IN  Join3(RootDirectory(cfg), sp[1], sp[2])

\* A file name built from the size argument as the caller spelled it.
ThumbnailFilenameRawSize(cfg, r, image_format) ==
    GenerateFilename(
        PathSplit(r.original)[2],
        r.size.v,
        OptGet(r, "crop", PyStr(S_fit)).v,
        OptGet(r, "background", PyNone),
        DigitsToInt(OptGet(r, "quality", PyInt(90)).v),
        GetFormat(cfg, image_format, r))

\* get_thumbnail, lines 109-117: the fingerprinted file name.
ThumbnailFilename(cfg, r, image_format) ==
    GenerateFilename(
        PathSplit(r.original)[2],
        AspectToString(r.size),
        OptGet(r, "crop", PyStr(S_fit)).v,
        OptGet(r, "background", PyNone),
        DigitsToInt(OptGet(r, "quality", PyInt(90)).v),
        GetFormat(cfg, image_format, r))

\* get_thumbnail, lines 118-120
ThumbnailFilepath(cfg, r, image_format) ==
    Join3(ThumbnailDirectory(cfg), PathSplit(r.original)[1], ThumbnailFilename(cfg, r, image_format))

\* get_thumbnail, lines 121-123
ThumbnailUrlOf(cfg, r, image_format) ==
    Join3(ThumbnailUrl(cfg), PathSplit(r.original)[1], ThumbnailFilename(cfg, r, image_format))


\* ------------------------------------------------------------------ state
VARIABLES
    config,     \* app.config, fixed once the extension is initialised
    storage,    \* the storage backend's durable state: path -> bytes
    pc,         \* per caller: where its get_thumbnail call stands
    req,        \* per caller: the arguments of its call
    loc,        \* per caller: the local variables of its call
    ops,        \* per caller: the storage operations its call has performed
    log,        \* the calls that have ended, in the order they ended
    backends,   \* how many times a storage backend has been imported and built
    faults,     \* how many storage operations the backend will still fail
    xin,        \* the arguments of a direct _create_thumbnail application
    xout,       \* its outcome
    cm,         \* a direct colormode application: arguments and result
    ext         \* the host application, the Thumbnail objects, the init_app calls

svars == << config, storage, pc, req, loc, ops, log, backends, faults >>
xvars == << xin, xout, cm, ext >>
vars == << config, storage, pc, req, loc, ops, log, backends, faults, xin, xout, cm, ext >>

Procs == { 1, 2 }

NoLoc ==
    [size |-> << 0, 0 >>, original_filepath |-> << >>, image |-> Img("", 0, 0),
     format |-> << >>, filepath |-> << >>, url |-> << >>, out |-> Junk,
     warned |-> FALSE, miss |-> FALSE]

NoX == [image |-> Img("", 0, 0), size |-> << 0, 0 >>, crop |-> << >>, background |-> Absent]
NoOut ==
    [ok |-> FALSE, err |-> "", resized |-> Img("", 0, 0), padded |-> FALSE,
     box |-> NoBox, image |-> Img("", 0, 0)]

Returned(value) == [kind |-> "return", err |-> "", value |-> value]
Raised(err) == [kind |-> "raise", err |-> err, value |-> << >>]

\* The storage before the first call: the originals under the media root,
\* and possibly a file that already sits at the plain request's thumbnail
\* path, whatever its bytes are.
InitialStorages(cfg) ==
    LET originals == { << OriginalFilepath(cfg, f[1]), f[2] >> : f \in OriginalFiles }
        stale     == << ThumbnailFilepath(cfg, BaseRequest, S_PNG), Junk >>
        AsFunction(files) ==
            [q \in { f[1] : f \in files } |-> (CHOOSE f \in files : f[1] = q)[2]]
    IN  { AsFunction(originals), AsFunction(originals \cup { stale }) }

\* No colormode application, no host application.
NoCm == [image |-> Img("", 0, 0), colormode |-> "", out |-> Img("", 0, 0), done |-> FALSE]
NoExt == [app |-> << >>, inst |-> << >>, log |-> << >>]

InitService ==
    /\ config \in Configs
    /\ storage \in InitialStorages(config)
    /\ pc = [p \in Procs |-> "idle"]
    /\ req = [p \in Procs |-> BaseRequest]
    /\ loc = [p \in Procs |-> NoLoc]
    /\ ops = [p \in Procs |-> << >>]
    /\ log = << >>
    /\ backends = 0

\* The service over a storage backend whose operations do not fail.
Init ==
    /\ InitService
    /\ faults = 0
    /\ xin = NoX
    /\ xout = NoOut
    /\ cm = NoCm
    /\ ext = NoExt

\* A call ends: its outcome joins the log and the caller is idle again.
End(p, r, ret, l, o) ==
    /\ log' = Append(log, [p |-> p, req |-> r, ret |-> ret, loc |-> l, ops |-> o])
    /\ pc' = [pc EXCEPT ![p] = "idle"]
    /\ loc' = [loc EXCEPT ![p] = NoLoc]
    /\ ops' = [ops EXCEPT ![p] = << >>]

\* A storage operation raises (permission, I/O): nothing in get_thumbnail
\* catches it, the call ends with the backend's error.
StorageFault(p, kind, path) ==
    /\ faults > 0
    /\ faults' = faults - 1
    /\ End(p, req[p], Raised("StorageError"), loc[p],
           Append(ops[p], [op |-> kind, path |-> path,
                           existed |-> StorageExists(storage, path), failed |-> TRUE]))

Started == Len(log) + Cardinality({ p \in Procs : pc[p] # "idle" })

\* A call that reads the original before it parses the size.
CallReadFirst(p, r) ==
    /\ pc[p] = "idle"
    /\ Started < MaxCalls
    /\ backends' = backends + 1
    /\ req' = [req EXCEPT ![p] = r]
    /\ LET parsed == ParseSize(r.size)
           path == OriginalFilepath(config, r.original)
           l == [NoLoc EXCEPT !.size = << parsed.w, parsed.h >>,
                              !.original_filepath = path]
       IN  IF parsed.ok
           THEN /\ pc' = [pc EXCEPT ![p] = "read"]
                /\ loc' = [loc EXCEPT ![p] = l]
                /\ UNCHANGED << ops, log >>
           ELSE End(p, r, Raised("InvalidSizeError"), NoLoc,
                    << [op |-> "read", path |-> path,
                        existed |-> StorageExists(storage, path), failed |-> FALSE] >>)
    /\ UNCHANGED << config, storage, faults, xvars >>

\* get_thumbnail, lines 89-99: build the storage backend, read the options,
\* parse the size, resolve the path of the original.
Call(p, r) ==
    /\ pc[p] = "idle"
    /\ Started < MaxCalls
    /\ backends' = backends + 1
    /\ req' = [req EXCEPT ![p] = r]
    /\ LET parsed == ParseSize(r.size)
           l == [NoLoc EXCEPT !.size = << parsed.w, parsed.h >>,
                              !.original_filepath = OriginalFilepath(config, r.original)]
       IN  IF parsed.ok
           THEN /\ pc' = [pc EXCEPT ![p] = "read"]
                /\ loc' = [loc EXCEPT ![p] = l]
                /\ UNCHANGED << ops, log >>
           ELSE End(p, r, Raised("InvalidSizeError"), NoLoc, << >>)
    /\ UNCHANGED << config, storage, faults, xvars >>

\* The part of ReadOriginal after a read that the backend served.
Decode(p, path, o) ==
    IF ~StorageExists(storage, path)
    THEN End(p, req[p], Raised("NotFoundError"), loc[p], o)
    ELSE LET bytes == StorageRead(storage, path)
         IN  CASE bytes.kind = "garbage" ->
                    \* Image.open raises outside the try block
                    End(p, req[p], Raised("UnidentifiedImageError"), loc[p], o)
               [] bytes.kind = "truncated" ->
                    \* image.load raises inside it: warn, return the path
                    End(p, req[p], Returned(path), [loc[p] EXCEPT !.warned = TRUE], o)
               [] OTHER ->
                    /\ loc' = [loc EXCEPT ![p] =
                                 [@ EXCEPT !.image = bytes.image,
                                           !.format = GetFormat(config, bytes.format, req[p]),
                                           !.filepath = ThumbnailFilepath(config, req[p], bytes.format),
                                           !.url = ThumbnailUrlOf(config, req[p], bytes.format)]]
                    /\ ops' = [ops EXCEPT ![p] = o]
                    /\ pc' = [pc EXCEPT ![p] = "exists"]
                    /\ UNCHANGED log

\* A read whose not-found error is handled like a decode failure.
ReadOriginalSwallows(p) ==
    /\ pc[p] = "read"
    /\ LET path == loc[p].original_filepath
           o    == Append(ops[p], [op |-> "read", path |-> path, existed |-> StorageExists(storage, path), failed |-> FALSE])
       IN  \/ StorageFault(p, "read", path)
           \/ /\ faults' = faults
              /\ IF ~StorageExists(storage, path)
                 THEN End(p, req[p], Returned(path), [loc[p] EXCEPT !.warned = TRUE], o)
                 ELSE Decode(p, path, o)
    /\ UNCHANGED << config, storage, req, backends, xvars >>

\* get_thumbnail, lines 101-123: read the original, open and load it,
\* resolve the format, the thumbnail path and the thumbnail URL.
ReadOriginal(p) ==
    /\ pc[p] = "read"
    /\ LET path == loc[p].original_filepath
           o    == Append(ops[p], [op |-> "read", path |-> path, existed |-> StorageExists(storage, path), failed |-> FALSE])
       IN  \/ StorageFault(p, "read", path)
           \/ /\ faults' = faults
              /\ Decode(p, path, o)
    /\ UNCHANGED << config, storage, req, backends, xvars >>

\* A cache check that never finds the thumbnail.
CheckExistsAlwaysMiss(p) ==
    /\ pc[p] = "exists"
    /\ LET path == loc[p].filepath
           o    == Append(ops[p], [op |-> "exists", path |-> path, existed |-> FALSE, failed |-> FALSE])
       IN  /\ pc' = [pc EXCEPT ![p] = "create"]
           /\ loc' = [loc EXCEPT ![p] = [@ EXCEPT !.miss = TRUE]]
           /\ ops' = [ops EXCEPT ![p] = o]
           /\ UNCHANGED log
    /\ UNCHANGED << config, storage, req, backends, faults, xvars >>

\* get_thumbnail, lines 125-126: the cache check.
CheckExists(p) ==
    /\ pc[p] = "exists"
    /\ LET path == loc[p].filepath
           hit  == StorageExists(storage, path)
           o    == Append(ops[p], [op |-> "exists", path |-> path, existed |-> hit, failed |-> FALSE])
       IN  \/ StorageFault(p, "exists", path)
           \/ /\ faults' = faults
              /\ IF hit
                 THEN End(p, req[p], Returned(loc[p].url), loc[p], o)
                 ELSE /\ pc' = [pc EXCEPT ![p] = "create"]
                      /\ loc' = [loc EXCEPT ![p] = [@ EXCEPT !.miss = TRUE]]
                      /\ ops' = [ops EXCEPT ![p] = o]
                      /\ UNCHANGED log
    /\ UNCHANGED << config, storage, req, backends, xvars >>

\* image.save(_file, format=thumbnail_format, quality=options.get("quality", 90))
Encode(image, format, quality) ==
    [kind |-> "image", format |-> format, quality |-> quality, image |-> image]

\* get_thumbnail, lines 128-133: transform and encode.
Create(p) ==
    /\ pc[p] = "create"
    /\ \E out \in CreateThumbnail(loc[p].image, loc[p].size,
                                  OptGet(req[p], "crop", PyStr(S_fit)).v,
                                  OptGet(req[p], "background", PyNone)) :
         IF out.ok
         THEN /\ loc' = [loc EXCEPT ![p] =
                           [@ EXCEPT !.out = Encode(out.image, loc[p].format,
                                                   DigitsToInt(OptGet(req[p], "quality", PyInt(90)).v))]]
              /\ pc' = [pc EXCEPT ![p] = "save"]
              /\ UNCHANGED << ops, log >>
         ELSE End(p, req[p], Raised(out.err), loc[p], ops[p])
    /\ UNCHANGED << config, storage, req, backends, faults, xvars >>

\* A save that looks again and leaves an existing thumbnail alone.
SaveIfAbsent(p) ==
    /\ pc[p] = "save"
    /\ LET path == loc[p].filepath
           o    == Append(ops[p], [op |-> "save", path |-> path, existed |-> FALSE, failed |-> FALSE])
       IN  IF StorageExists(storage, path)
           THEN /\ UNCHANGED storage
                /\ End(p, req[p], Returned(loc[p].url), loc[p], ops[p])
           ELSE /\ storage' = StorageSave(storage, path, loc[p].out)
                /\ End(p, req[p], Returned(loc[p].url), loc[p], o)
    /\ UNCHANGED << config, req, backends, faults, xvars >>

\* A save that is attempted a second time.
SaveTwice(p) ==
    /\ pc[p] = "save"
    /\ LET path == loc[p].filepath
           o    == [op |-> "save", path |-> path, existed |-> StorageExists(storage, path), failed |-> FALSE]
       IN  /\ storage' = StorageSave(storage, path, loc[p].out)
           /\ End(p, req[p], Returned(loc[p].url), loc[p],
                  Append(Append(ops[p], o), [o EXCEPT !.existed = TRUE]))
    /\ UNCHANGED << config, req, backends, faults, xvars >>

\* A save that returns the URL without the bytes reaching the storage.
SaveLost(p) ==
    /\ pc[p] = "save"
    /\ LET path == loc[p].filepath
           o    == Append(ops[p], [op |-> "save", path |-> path, existed |-> StorageExists(storage, path), failed |-> FALSE])
       IN  /\ UNCHANGED storage
           /\ End(p, req[p], Returned(loc[p].url), loc[p], o)
    /\ UNCHANGED << config, req, backends, faults, xvars >>

\* get_thumbnail, lines 134-136: persist and return the URL.
Save(p) ==
    /\ pc[p] = "save"
    /\ LET path == loc[p].filepath
           o    == Append(ops[p], [op |-> "save", path |-> path, existed |-> StorageExists(storage, path), failed |-> FALSE])
       IN  \/ /\ StorageFault(p, "save", path)
              /\ UNCHANGED storage
           \/ /\ faults' = faults
              /\ storage' = StorageSave(storage, path, loc[p].out)
              /\ End(p, req[p], Returned(loc[p].url), loc[p], o)
    /\ UNCHANGED << config, req, backends, xvars >>

\* One caller: each call runs to completion before the next starts.
Next ==
    \/ \E r \in Requests : Call(1, r)
    \/ ReadOriginal(1)
    \/ CheckExists(1)
    \/ Create(1)
    \/ Save(1)

Spec == Init /\ [][Next]_vars

\* How many storage operations may fail in one behaviour of SpecFault.
MaxFaults == 1

\* The same service over a storage backend whose operations may raise.
InitFault ==
    /\ InitService
    /\ faults = MaxFaults
    /\ xin = NoX
    /\ xout = NoOut
    /\ cm = NoCm
    /\ ext = NoExt

\* The calls made over the failing backend: every original (decodable,
\* truncated, no image, missing), both spellings of the size and a malformed
\* one, and a background.
FaultRequests ==
    Vary("original", OriginalNames)
        \cup Vary("size", { PyStr(<< "2","x","2" >>), PyStr(<< "2","y" >>) })
        \cup Vary("background", { PyTrue })

NextFault ==
    \/ \E r \in FaultRequests : Call(1, r)
    \/ ReadOriginal(1)
    \/ CheckExists(1)
    \/ Create(1)
    \/ Save(1)

SpecFault == InitFault /\ [][NextFault]_vars

\* Two callers whose calls interleave at every storage operation: nothing in
\* get_thumbnail holds a lock between them.
ConcRequests ==
    Vary("original", { S_a_png, S_a_jpg, S_c_png })
        \cup Vary("size", { PyStr(<< "2","x","2" >>) })
        \cup Vary("crop", CropValues) \cup Vary("background", { PyTrue })

NextConc ==
    \E p \in Procs :
        \/ \E r \in ConcRequests : Call(p, r)
        \/ ReadOriginal(p)
        \/ CheckExists(p)
        \/ Create(p)
        \/ Save(p)

SpecConc == Init /\ [][NextConc]_vars

\* ------------------------------------------- _create_thumbnail on its own
XBackgrounds == { Absent, PyNone, PyFalse, PyInt(0), PyStr(<< >>), PyTrue, PyStr(<< "w" >>) }
XCrops == { S_fit, S_thumbnail }

XInputs ==
    { [image |-> Img("RGB", w, h), size |-> << x, y >>, crop |-> c, background |-> b] :
        w \in 1..MaxDim, h \in 1..MaxDim, x \in 1..MaxDim, y \in 1..MaxDim,
        c \in XCrops, b \in XBackgrounds }

InitX ==
    /\ config \in { c \in Configs : c.THUMBNAIL_MEDIA_THUMBNAIL_ROOT = S_media
                                    /\ c.THUMBNAIL_DEFAULT_FORMAT = PyNone }
    /\ storage = << >>
    /\ pc = [p \in Procs |-> "idle"]
    /\ req = [p \in Procs |-> BaseRequest]
    /\ loc = [p \in Procs |-> NoLoc]
    /\ ops = [p \in Procs |-> << >>]
    /\ log = << >>
    /\ backends = 0
    /\ faults = 0
    /\ xin \in XInputs
    /\ xout = NoOut
    /\ cm = NoCm
    /\ ext = NoExt

\* get_thumbnail, lines 92 and 128-130: the background option as the caller
\* gave it (or omitted it) reaches _create_thumbnail through options.get.
XCreate ==
    /\ xout = NoOut
    /\ xout' \in CreateThumbnail(xin.image, xin.size, xin.crop,
                                 OptGet(xin, "background", PyNone))
    /\ UNCHANGED << svars, xin, cm, ext >>

NextX == XCreate

SpecX == InitX /\ [][NextX]_vars

\* Thumbnail.colormode applied to drawn images and requested modes.
SourceModes == { "1", "L", "LA", "P", "RGB", "RGBA", "CMYK" }
RequestedModes == { "RGB", "RGBA", "GRAY", "L", "CMYK", "1" }

CmInputs ==
    { [image |-> Img(m, w, h), colormode |-> c, out |-> Img("", 0, 0), done |-> FALSE] :
        m \in SourceModes, w \in 1..MaxDim, h \in 1..MaxDim, c \in RequestedModes }

InitColor ==
    /\ config \in { c \in Configs : c.THUMBNAIL_MEDIA_THUMBNAIL_ROOT = S_media
                                    /\ c.THUMBNAIL_DEFAULT_FORMAT = PyNone }
    /\ storage = << >>
    /\ pc = [p \in Procs |-> "idle"]
    /\ req = [p \in Procs |-> BaseRequest]
    /\ loc = [p \in Procs |-> NoLoc]
    /\ ops = [p \in Procs |-> << >>]
    /\ log = << >>
    /\ backends = 0
    /\ faults = 0
    /\ xin = NoX
    /\ xout = NoOut
    /\ cm \in CmInputs
    /\ ext = NoExt

XColormode ==
    /\ ~cm.done
    /\ cm' = [cm EXCEPT !.out = Colormode(cm.image, cm.colormode), !.done = TRUE]
    /\ UNCHANGED << svars, xin, xout, ext >>

NextColor == XColormode

SpecColor == InitColor /\ [][NextColor]_vars

\* ------------------------------------------------------------- init_app
\* One host application and the Thumbnail objects built for it.
MaxInst == 2
\* How many init_app calls a behaviour makes.
MaxInits == 2

Insts == 1..MaxInst

\* The keys init_app gives a default.
ConfigKeys ==
    { "THUMBNAIL_MEDIA_ROOT", "THUMBNAIL_MEDIA_THUMBNAIL_ROOT", "THUMBNAIL_MEDIA_URL",
      "THUMBNAIL_MEDIA_THUMBNAIL_URL", "THUMBNAIL_STORAGE_BACKEND", "THUMBNAIL_DEFAULT_FORMAT" }

\* The application before any Thumbnail: no thumbnail_instance attribute
\* (0), an extensions dict or none, no "thumbnail" extension (0), no
\* "thumbnail" filter (0), and a config in which the host has set some keys.
HostApps ==
    { [thumbnail_instance |-> 0, has_extensions |-> x, extension |-> 0, filter |-> 0,
       config |-> [k \in ConfigKeys |-> IF k \in set THEN "host" ELSE "unset"]] :
        x \in BOOLEAN, set \in SUBSET ConfigKeys }

\* A Thumbnail that has not been constructed.
NoInst == [made |-> FALSE, app |-> FALSE, configure_jinja |-> FALSE]

\* dict.setdefault over the six keys: a key keeps the value it has.
SetDefaults(cfg) == [k \in ConfigKeys |-> IF cfg[k] = "unset" THEN "default" ELSE cfg[k]]

\* Thumbnail.init_app of object t (whose _configure_jinja is jinja) on the
\* application: the application after the call and whether the call raised.
InitAppResult(app, t, jinja) ==
    LET a1 == [app EXCEPT !.thumbnail_instance = t]
        a2 == [a1 EXCEPT !.has_extensions = TRUE]
    IN  IF a2.extension # 0
        THEN [raised |-> TRUE, app |-> a2]
        ELSE [raised |-> FALSE,
              app |-> [a2 EXCEPT !.extension = t,
                                 !.config = SetDefaults(a2.config),
                                 !.filter = IF jinja THEN t ELSE @]]

InitExt ==
    /\ config \in { c \in Configs : c.THUMBNAIL_MEDIA_THUMBNAIL_ROOT = S_media
                                    /\ c.THUMBNAIL_DEFAULT_FORMAT = PyNone }
    /\ storage = << >>
    /\ pc = [p \in Procs |-> "idle"]
    /\ req = [p \in Procs |-> BaseRequest]
    /\ loc = [p \in Procs |-> NoLoc]
    /\ ops = [p \in Procs |-> << >>]
    /\ log = << >>
    /\ backends = 0
    /\ faults = 0
    /\ xin = NoX
    /\ xout = NoOut
    /\ cm = NoCm
    /\ ext \in { [app |-> a, inst |-> [t \in Insts |-> NoInst], log |-> << >>] : a \in HostApps }

\* The init_app call of object t joins the record of calls.
Initialized(t, jinja) ==
    LET res == InitAppResult(ext.app, t, jinja)
    IN  [app |-> res.app,
         inst |-> [ext.inst EXCEPT ![t] = [made |-> TRUE, app |-> TRUE, configure_jinja |-> jinja]],
         log |-> Append(ext.log, [t |-> t, raised |-> res.raised,
                                  before |-> ext.app, after |-> res.app])]

\* Thumbnail(app, configure_jinja) or Thumbnail(configure_jinja=...): with an
\* application the constructor runs init_app.
Construct(t, withApp, jinja) ==
    /\ ~ext.inst[t].made
    /\ IF withApp
       THEN /\ Len(ext.log) < MaxInits
            /\ ext' = Initialized(t, jinja)
       ELSE ext' = [ext EXCEPT !.inst[t] = [made |-> TRUE, app |-> FALSE, configure_jinja |-> jinja]]
    /\ UNCHANGED << svars, xin, xout, cm >>

\* t.init_app(app) on an object constructed earlier.
InitApp(t) ==
    /\ ext.inst[t].made
    /\ Len(ext.log) < MaxInits
    /\ ext' = Initialized(t, ext.inst[t].configure_jinja)
    /\ UNCHANGED << svars, xin, xout, cm >>

NextInit ==
    \/ \E t \in Insts, withApp \in BOOLEAN, jinja \in BOOLEAN : Construct(t, withApp, jinja)
    \/ \E t \in Insts : InitApp(t)

SpecInit == InitExt /\ [][NextInit]_vars


\* ================================================================= claims
\* What the properties below read off a call's record.
OpsOf(e, kind) == { i \in 1..Len(e.ops) : e.ops[i].op = kind }
SaveCount(e) == Cardinality(OpsOf(e, "save"))
Decoded(e) == OpsOf(e, "exists") # {}
Missed(e) == \E i \in OpsOf(e, "exists") : ~e.ops[i].existed
Hit(e) == \E i \in OpsOf(e, "exists") : e.ops[i].existed
Entries == { log[i] : i \in 1..Len(log) }
\* The text after the last "." of a path.
ExtensionOf(path) == SubSeq(path, LastIndex(path, ".") + 1, Len(path))

\* C1: two get_thumbnail calls in sequence with identical arguments, the
\* first finding its original decodable and its thumbnail absent, perform
\* exactly one storage.save in total and return the same reference.
C1_Idempotent ==
    (Len(log) = 2 /\ log[1].req = log[2].req /\ Missed(log[1]))
        => /\ SaveCount(log[1]) + SaveCount(log[2]) = 1
           /\ log[1].ret.kind = "return"
           /\ log[2].ret = log[1].ret

\* C2: a call that decoded its original and found the thumbnail path
\* existing saves nothing and neither transforms nor encodes; one that found
\* it missing performs exactly one save, to that thumbnail path.
C2_WritesByCacheCheck ==
    \A e \in Entries :
        Decoded(e) =>
            /\ Hit(e) => (SaveCount(e) = 0 /\ e.loc.out = Junk)
            /\ Missed(e) => /\ SaveCount(e) = 1
                            /\ \A i \in OpsOf(e, "save") : e.ops[i].path = e.loc.filepath

\* C3: with calls made one after the other, no save targets a path that
\* exists at the time of the save; every thumbnail path is written at most
\* once and keeps the bytes written; no original's path is written.
C3_NeverOverwrites ==
    /\ \A e \in Entries : \A i \in OpsOf(e, "save") :
          /\ ~e.ops[i].existed
          /\ StorageExists(storage, e.ops[i].path)
          /\ StorageRead(storage, e.ops[i].path) = e.loc.out
          /\ e.ops[i].path \notin { OriginalFilepath(config, f[1]) : f \in OriginalFiles }
    /\ \A i, j \in 1..Len(log) :
          (i # j /\ SaveCount(log[i]) > 0 /\ SaveCount(log[j]) > 0)
              => log[i].loc.filepath # log[j].loc.filepath
    /\ \A f \in OriginalFiles :
          /\ StorageExists(storage, OriginalFilepath(config, f[1]))
          /\ StorageRead(storage, OriginalFilepath(config, f[1])) = f[2]

\* Witness of C3: a thumbnail was written by one call and a later call for
\* the same path was served from storage.
C3_Witness ==
    /\ Len(log) = 2
    /\ SaveCount(log[1]) = 1
    /\ Hit(log[2])
    /\ log[2].loc.filepath = log[1].loc.filepath

\* C4: nothing orders one caller's cache check against another caller's
\* save: a call that missed at the cache check and whose transform succeeded
\* performs its save whatever the storage holds by then.
C4_SaveAfterMissUnconditional ==
    \A e \in Entries :
        (Missed(e) /\ e.ret.kind = "return")
            => /\ SaveCount(e) = 1
               /\ \A i \in OpsOf(e, "save") : e.ops[i].path = e.loc.filepath

\* Witness of C4: two calls both saw the same thumbnail path missing, both
\* transformed, and both saved to it; the second save found the path there.
C4_Witness ==
    /\ Len(log) = 2
    /\ Missed(log[1]) /\ Missed(log[2])
    /\ log[1].loc.filepath = log[2].loc.filepath
    /\ SaveCount(log[1]) = 1 /\ SaveCount(log[2]) = 1
    /\ \E i \in OpsOf(log[2], "save") : log[2].ops[i].existed

\* C5: when the bytes read at the original's path cannot be decoded, at
\* open or at load, get_thumbnail does not raise: it returns the resolved
\* path of the original and saves nothing.
C5_DecodeFailureReturnsPath ==
    \A e \in Entries :
        (/\ OpsOf(e, "read") # {}
         /\ \A i \in OpsOf(e, "read") : e.ops[i].existed
         /\ StorageRead(storage, e.loc.original_filepath).kind \in { "garbage", "truncated" })
            => /\ e.ret = Returned(e.loc.original_filepath)
               /\ SaveCount(e) = 0

\* The cache key of a call that decoded its original.
KeyOf(e) ==
    << e.req.original,
       AspectToString(e.req.size),
       OptGet(e.req, "crop", PyStr(S_fit)),
       Truthy(OptGet(e.req, "background", PyNone)),
       OptGet(e.req, "quality", PyInt(90)),
       e.loc.format >>

\* C6: two calls whose (original path, canonical size, crop mode, background
\* flag, quality, resolved format) differ in a component resolve to
\* different thumbnail paths.
C6_KeySeparates ==
    \A d, e \in Entries :
        (Decoded(d) /\ Decoded(e) /\ KeyOf(d) # KeyOf(e))
            => d.loc.filepath # e.loc.filepath

\* C7: the output format is the lower-cased per-call format when one is
\* given and non-empty, else the lower-cased configured default when that
\* is non-empty, else the format of the decoded image; that format is the
\* extension of the thumbnail path and the format the saved bytes are
\* encoded in.
C7_FormatPriority ==
    \A e \in Entries :
        Decoded(e) =>
            LET given    == e.req.format \notin { Absent, PyNone, PyStr(<< >>) }
                default  == config.THUMBNAIL_DEFAULT_FORMAT
                hasdef   == default \notin { PyNone, PyStr(<< >>) }
                native   == StorageRead(storage, e.loc.original_filepath).format
                expected == IF given THEN Lower(e.req.format.v)
                            ELSE IF hasdef THEN Lower(default.v)
                            ELSE native
            IN  /\ e.loc.format = expected
                /\ ExtensionOf(e.loc.filepath) = expected
                /\ ExtensionOf(e.ret.value) = expected \/ e.ret.kind = "raise"
                /\ \A i \in OpsOf(e, "save") :
                      StorageRead(storage, e.ops[i].path).format = expected

\* Witness of C7: a call given a format while a default format is configured
\* has saved its thumbnail.
C7_Witness ==
    \E e \in Entries :
        /\ SaveCount(e) = 1
        /\ e.req.format = PyStr(S_WEBP)
        /\ config.THUMBNAIL_DEFAULT_FORMAT = PyStr(S_Gif)
        /\ e.loc.format = << "w","e","b","p" >>


\* C8: the thumbnail is padded to a square exactly when the background
\* option is truthy: for None, False, 0, "" and an omitted option the padding
\* step is not applied, for every truthy value it is.
C8_PadsIffTruthy ==
    xout # NoOut =>
        LET falsy == xin.background \in { Absent, PyNone, PyFalse, PyInt(0), PyStr(<< >>) }
        IN  xout.padded <=> ~falsy

\* C9: with crop "fit" the image _create_thumbnail returns has exactly the
\* requested size; with any other crop it exceeds neither the requested
\* size nor the size of the source on either axis.
C9_OutputDimensions ==
    (xout # NoOut /\ xout.ok) =>
        IF xin.crop = S_fit
        THEN xout.image.size = xin.size
        ELSE \A i \in 1..2 : /\ xout.image.size[i] <= xin.size[i]
                             /\ xout.image.size[i] <= xin.image.size[i]

\* Witness of C9: a source that overflows the requested size on one axis
\* only was shrunk, without cropping, to a size that is neither its own nor
\* the requested one.
C9_Witness ==
    /\ xout # NoOut /\ xout.ok
    /\ xin.crop = S_thumbnail
    /\ xin.image.size[1] > xin.size[1]
    /\ xin.image.size[2] < xin.size[2]
    /\ xout.image.size # xin.image.size
    /\ xout.image.size # xin.size

\* C10: padding an image of size (w, h) makes a square canvas of side
\* max(w, h) and pastes the image at the offsets floor((max(w, h) - w) / 2)
\* and floor((max(w, h) - h) / 2).
C10_CenteredAtFloor ==
    (xout # NoOut /\ xout.padded) =>
        LET w    == xout.resized.size[1]
            h    == xout.resized.size[2]
            side == Max2(w, h)
        IN  /\ xout.box[1].twice = 2 * ((side - w) \div 2)
            /\ xout.box[2].twice = 2 * ((side - h) \div 2)
            /\ xout.ok => xout.image.size = << side, side >>

\* C11: colormode with a requested mode of RGB or RGBA returns an RGBA source
\* as it is, turns an LA source into RGBA and any other source into the
\* requested mode; a request of GRAY gives mode L for every source; any other
\* requested mode is the mode of the result. The size is the source's.
C11_ColormodeTable ==
    cm.done =>
        /\ cm.out.size = cm.image.size
        /\ cm.out.mode =
             CASE cm.colormode \in {"RGB", "RGBA"} /\ cm.image.mode \in {"RGBA", "LA"} -> "RGBA"
               [] cm.colormode \in {"RGB", "RGBA"} /\ cm.image.mode \notin {"RGBA", "LA"} -> cm.colormode
               [] cm.colormode = "GRAY" -> "L"
               [] OTHER -> cm.colormode
        /\ (cm.colormode \in {"RGB", "RGBA"} /\ cm.image.mode = "RGBA") => cm.out = cm.image

\* An LA source asked for RGB came out as RGBA.
C11_Witness ==
    /\ cm.done
    /\ cm.image.mode = "LA"
    /\ cm.colormode = "RGB"
    /\ cm.out.mode = "RGBA"

\* Requests a and b differ only in how the size is spelled: a gives the
\* integer N, b the string "NxN".
Respelled(a, b) ==
    /\ a.size.t = "int"
    /\ b.size = PyStr(a.size.v \o << "x" >> \o a.size.v)
    /\ [a EXCEPT !.size = b.size] = b

\* C12: two calls that differ only in spelling the size as N or as "NxN"
\* resolve the same (width, height), the same thumbnail path and the same
\* URL; once one of them has generated the thumbnail, the other is a cache
\* hit that writes nothing and returns the same URL.
C12_SpellingInvariant ==
    \A i, j \in 1..Len(log) :
        (i # j /\ Respelled(log[i].req, log[j].req)) =>
            /\ (log[i].ops # << >> /\ log[j].ops # << >>) =>
                   log[i].loc.size = log[j].loc.size
            /\ (Decoded(log[i]) /\ Decoded(log[j])) =>
                   /\ log[i].loc.filepath = log[j].loc.filepath
                   /\ log[i].loc.url = log[j].loc.url
            /\ \A a, b \in {i, j} :
                   (a < b /\ log[a].ret.kind = "return" /\ SaveCount(log[a]) = 1) =>
                       /\ Hit(log[b])
                       /\ SaveCount(log[b]) = 0
                       /\ log[b].ret = log[a].ret

\* The call with size 2 generated the thumbnail and the call with "2x2" hit it.
C12_Witness ==
    /\ Len(log) = 2
    /\ Respelled(log[1].req, log[2].req)
    /\ SaveCount(log[1]) = 1
    /\ Hit(log[2])
    /\ log[2].ret = Returned(log[1].loc.url)

\* The storage operations of entry e that raised.
FailedOps(e) == { i \in 1..Len(e.ops) : e.ops[i].failed }
\* The read of entry e found no file at the original's path.
ReadMissing(e) ==
    e.ops # << >> /\ e.ops[1].op = "read" /\ ~e.ops[1].failed /\ ~e.ops[1].existed

\* C13: an error of the storage reaches the caller as it is. The call whose
\* original is missing ends with the backend's not-found error, the call one
\* of whose storage operations raised ends with that error and performs no
\* operation after it; a call whose read failed performed the read alone (no
\* exists check, no save) and the storage is what it was.
C13_StorageErrorsPropagate ==
    [][ Len(log') = Len(log) + 1 =>
          LET e == log'[Len(log')]
          IN  /\ ReadMissing(e) => e.ret = Raised("NotFoundError")
              /\ FailedOps(e) # {} =>
                    /\ e.ret = Raised("StorageError")
                    /\ FailedOps(e) = { Len(e.ops) }
                    /\ storage' = storage
              /\ (ReadMissing(e) \/ 1 \in FailedOps(e)) =>
                    /\ Len(e.ops) = 1
                    /\ e.ops[1].op = "read"
                    /\ storage' = storage
      ]_vars

\* One call ended with the not-found error of a missing original, another
\* with the error its save raised.
C13_Witness ==
    \E d, e \in Entries :
        /\ ReadMissing(d)
        /\ d.ret = Raised("NotFoundError")
        /\ \E i \in FailedOps(e) : e.ops[i].op = "save"
        /\ e.ret = Raised("StorageError")

\* The kinds of the storage operations of entry e, in the order performed.
Kinds(e) == [i \in 1..Len(e.ops) |-> e.ops[i].op]

\* C14: a call that got past size parsing performs exactly one read (also
\* when it then hits the cache), then at most one exists, then at most one
\* save, in this order and with no operation repeated; a call in progress
\* has performed a prefix of this sequence.
C14_OneReadExistsSave ==
    /\ \A e \in Entries :
          IF ParseSize(e.req.size).ok
          THEN Kinds(e) \in { << "read" >>, << "read", "exists" >>,
                              << "read", "exists", "save" >> }
          ELSE e.ops = << >>
    /\ \A p \in Procs :
          Kinds([ops |-> ops[p]]) \in { << >>, << "read" >>, << "read", "exists" >> }

\* One call read, missed and saved; the next read again and hit.
C14_Witness ==
    /\ Len(log) = 2
    /\ Kinds(log[1]) = << "read", "exists", "save" >>
    /\ Kinds(log[2]) = << "read", "exists" >>
    /\ Hit(log[2])

\* C15: over any sequence of get_thumbnail calls on one Thumbnail with an
\* unchanged configuration, the storage backend is imported and
\* instantiated at most once.
C15_BackendResolvedOnce == backends <= 1

\* The thumbnail URL this configuration gives the request of entry e.
UrlFor(e) ==
    Join3(ThumbnailUrl(config), PathSplit(e.req.original)[1], PathSplit(e.loc.filepath)[2])

\* C16: a call that does not raise returns the thumbnail URL or, only when
\* loading the image failed, the resolved path of the original; when it
\* returns the URL, a file exists in the storage at the thumbnail path, which
\* has the original's subdirectory and the file name of the URL.
C16_ReturnedReferenceBacked ==
    \A e \in Entries :
        e.ret.kind = "return" =>
            IF e.loc.warned
            THEN /\ ~Decoded(e)
                 /\ e.ret.value = OriginalFilepath(config, e.req.original)
            ELSE /\ Decoded(e)
                 /\ e.ret.value = e.loc.url
                 /\ e.loc.url = UrlFor(e)
                 /\ PathSplit(e.loc.filepath)[1] =
                        Join2(ThumbnailDirectory(config), PathSplit(e.req.original)[1])
                 /\ StorageExists(storage, e.loc.filepath)

\* One call generated a thumbnail and returned its URL, another could not
\* load its original and returned the original's path.
C16_Witness ==
    \E d, e \in Entries :
        /\ SaveCount(d) = 1
        /\ d.ret = Returned(d.loc.url)
        /\ StorageExists(storage, d.loc.filepath)
        /\ e.loc.warned
        /\ e.ret = Returned(e.loc.original_filepath)

\* C17: a call whose size cannot be parsed raises the size error and has
\* performed no storage.read, no storage.exists and no storage.save.
C17_MalformedSizeBeforeStorage ==
    \A e \in Entries :
        ~ParseSize(e.req.size).ok =>
            /\ e.ret = Raised("InvalidSizeError")
            /\ e.ops = << >>

\* A call with the size "2y" has ended.
C17_Witness ==
    \E e \in Entries :
        /\ e.req.size = PyStr(<< "2", "y" >>)
        /\ e.ret = Raised("InvalidSizeError")
        /\ e.ops = << >>

\* C18: init_app registers at most one Thumbnail per application and fails
\* atomically: a call on an application whose extensions hold "thumbnail"
\* raises and leaves the application as it was (extension, thumbnail_instance,
\* config, filters); a call that succeeds keeps every config value the host
\* had set.
C18_InitAppAtomic ==
    \A i \in 1..Len(ext.log) :
        LET c == ext.log[i]
        IN  /\ c.raised <=> c.before.extension # 0
            /\ c.raised => c.after = c.before
            /\ ~c.raised =>
                  \A k \in ConfigKeys :
                      c.before.config[k] = "host" => c.after.config[k] = "host"

=============================================================================
